---- MODULE Spec2Model ----
(***************************************************************************)
(* The NATS jobs driver of natsjobs (src/natsjobs/unpack.go): the listener *)
(* counter, the pipeline binding, the subscription handle, the worker      *)
(* goroutines and the connection, driven by Run, Resume, Pause, Stop,      *)
(* Register, State, Push, requeue, unpack and FromConfig.                  *)
(*                                                                         *)
(* Every atomic load, atomic add, field write and backend call of a method *)
(* is one step of the calling goroutine, so that concurrent callers        *)
(* interleave exactly where the code lets them: the Driver embeds a        *)
(* sync.RWMutex (line 72) but no method ever locks it.                     *)
(***************************************************************************)
EXTENDS Integers, Sequences, FiniteSets, TLC

\* ---------------------------------------------------------------- bounds
NumCallers == 2      \* goroutines calling the Driver's methods concurrently
MaxCalls == 3        \* method calls started in one behaviour
MaxMsgs == 2         \* messages published to the stream in one behaviour
Prefetch == 2        \* capacity of the intake channel msgCh (conf.Prefetch)
MaxSeq == 12         \* largest sequence number handed to unpack on its own

\* ------------------------------------------------------------- constants
MaxInt32 == 2147483647

Callers == 1..NumCallers
SeqCallers == {1}
Names == {"p1", "p2"}
Priorities == {-1, 10}
Pipelines == {pl \in [name : Names, priority : Priorities] :
                pl.name = "p1" \/ pl.priority = 10}
InitPipeline == [name |-> "p1", priority |-> 10]
Delays == {0, 1, 2}
DeliverPolicies == {"all", "new", "last"}
Nil == 0
NoState == [none |-> TRUE]
NoFrame == [l |-> {}, st |-> NoState]
auto == "deduced_by_rr"

VARIABLES
  listeners,    \* c.listeners: the uint32 counter, kept as its 32-bit pattern
                \* read as a signed number (-1 is 2^32 - 1)
  pipeline,     \* c.pipeline: the bound pipeline
  sub,          \* c.sub: Nil or the handle of a subscription
  subs,         \* the backend's live subscriptions: handle -> consumer state
  workers,      \* number of worker goroutines started and not yet stopped
  conn,         \* c.conn: "open" or "closed"
  msgCh,        \* the buffered intake channel's content
  msgChNil,     \* c.msgCh = nil
  streamExists, \* the stream c.stream exists in the backend
  stream,       \* the stream's messages: records [seq, body]
  lastSeq,      \* last stream sequence number assigned
  queue,        \* c.queue: the Items inserted into the priority queue
  cfg,          \* the immutable configuration snapshot
  pc,           \* per caller: where it is in its method
  frame,        \* per caller: its locals, the loaded counter l and the
                \* jobs.State st being built
  calls,        \* method calls started so far
  pausedOnce,   \* history: some Pause has returned success
  last          \* the call that returned last: [op, err, l, st]

vars == <<listeners, pipeline, sub, subs, workers, conn, msgCh, msgChNil,
          streamExists, stream, lastSeq, queue, cfg, pc, frame, calls,
          pausedOnce, last>>

driverVars == <<listeners, pipeline, sub, subs, workers, conn, msgChNil>>
backendVars == <<msgCh, streamExists, stream, lastSeq, queue>>
constVars == <<cfg, pausedOnce>>

\* ------------------------------------------------------- pure functions

\* atomic.AddUint32(&c.listeners, 1) on the 32-bit pattern
Inc32(n) == IF n = MaxInt32 THEN (-MaxInt32) - 1 ELSE n + 1

\* atomic.AddUint32(&c.listeners, ^uint32(0)): adds 2^32 - 1, i.e. subtracts 1
Dec32(n) == IF n = (-MaxInt32) - 1 THEN MaxInt32 ELSE n - 1

\* ready(r uint32) bool { return r > 0 }: unsigned comparison
ready(r) == r # 0

\* uint64(pipe.Priority()): wraps * 2^64 + low
Uint64(n) == [wraps |-> IF n < 0 THEN 1 ELSE 0, low |-> n]

EmptySubs == [i \in {} |-> 0]

RemoveSub(f, s) == [i \in (DOMAIN f) \ {s} |-> f[i]]

\* a handle not in use: the allocation of a new *nats.Subscription
NewSub == CHOOSE i \in 1..(Cardinality(DOMAIN subs) + 2) :
             /\ i \notin (DOMAIN subs) \cup {sub}
             /\ \A j \in 1..(i - 1) : j \in (DOMAIN subs) \cup {sub}

Seqs == {m.seq : m \in stream}

\* first stream sequence a new consumer delivers, per delivery policy
StartCursor ==
  CASE cfg.deliver = "new" -> lastSeq + 1
    [] cfg.deliver = "last" -> IF Seqs = {} THEN lastSeq + 1
                               ELSE CHOOSE s \in Seqs : \A t \in Seqs : t <= s
    [] OTHER -> 1

\* strconv of a non-negative number, as fmt's %d prints it
Digit == <<"0", "1", "2", "3", "4", "5", "6", "7", "8", "9">>

RECURSIVE Itoa(_)
Itoa(n) == IF n < 10 THEN Digit[n + 1]
           ELSE Itoa(n \div 10) \o Digit[(n % 10) + 1]

NoOptions == [nil |-> TRUE]
NoItem == [nil |-> TRUE]

\* a message body that is not the JSON of an Item
RawBody == [kind |-> "raw", data |-> "bytes"]

\* json.Marshal of a job or Item
Marshal(ident, opts) ==
  [kind |-> "json", data |-> [Ident |-> ident, Job |-> "job", Options |-> opts]]

Options(delay) == [Priority |-> 10, Pipeline |-> "p1", Delay |-> delay]

\* bodies other producers publish to the subject
ForeignBodies == {RawBody, Marshal("ext", NoOptions)}

\* unpack: the Item of a consumed message, or an error
unpack(m, meta) ==
  IF cfg.consumeAll
  THEN [err |-> FALSE,
        item |-> [Ident |-> Itoa(meta.consumer) \o ":" \o Itoa(meta.stream),
                  Job |-> auto,
                  Options |-> [Priority |-> 10, Pipeline |-> auto, Delay |-> 0]]]
  ELSE IF m.kind = "json"
       THEN [err |-> FALSE, item |-> m.data]
       ELSE [err |-> TRUE, item |-> NoItem]

\* ---------------------------------------------------------------- Init
Init ==
  /\ listeners = 0
  /\ pipeline = InitPipeline
  /\ sub = Nil
  /\ subs = EmptySubs
  /\ workers = 0
  /\ conn = "open"
  /\ msgCh = <<>>
  /\ msgChNil = FALSE
  /\ streamExists = TRUE
  /\ stream = {}
  /\ lastSeq = 0
  /\ queue = {}
  /\ cfg \in [deleteStreamOnStop : BOOLEAN, consumeAll : BOOLEAN,
              deliver : DeliverPolicies]
  /\ pc = [p \in Callers |-> "idle"]
  /\ frame = [p \in Callers |-> NoFrame]
  /\ calls = 0
  /\ pausedOnce = FALSE
  /\ last = [op |-> "none", err |-> "nil", l |-> {},
             st |-> NoState]

\* ------------------------------------------------------------- helpers
Enter(p) == pc[p] = "idle" /\ calls < MaxCalls /\ calls' = calls + 1

\* the caller moves on to label l of its method
Goto(p, l) == pc' = [pc EXCEPT ![p] = l] /\ UNCHANGED last

\* the caller's method returns err (and, for State, the state s)
Return(p, op, err, s) ==
  /\ pc' = [pc EXCEPT ![p] = "idle"]
  /\ frame' = [frame EXCEPT ![p] = NoFrame]
  /\ last' = [op |-> op, err |-> err, l |-> frame[p].l, st |-> s]

AllIdle == \A p \in Callers : pc[p] = "idle"

\* c.listenerInit(): subscribe to the subject, delivering into msgCh
listenerInit(ok) ==
  IF ok
  THEN /\ sub' = NewSub
       /\ subs' = [i \in (DOMAIN subs) \cup {NewSub} |->
                     IF i = NewSub THEN [cursor |-> StartCursor, delivered |-> 0]
                     ELSE subs[i]]
  ELSE UNCHANGED <<sub, subs>>

\* whether the subscription can be created at all
CanSubscribe == conn = "open" /\ streamExists

InitOutcomes == IF CanSubscribe THEN BOOLEAN ELSE {FALSE}

\* c.listenerStart(): start the worker goroutine
listenerStart == workers' = workers + 1

\* c.sub.Drain() when c.sub != nil; an error is only logged
DrainSub ==
  IF sub # Nil /\ sub \in DOMAIN subs /\ conn = "open"
  THEN \E ok \in BOOLEAN :
         subs' = IF ok THEN RemoveSub(subs, sub) ELSE subs
  ELSE UNCHANGED subs

\* c.stopCh <- struct{}{}: the channel is unbuffered, so the send completes
\* only together with a worker's receive, and that worker returns
SendStop == workers > 0 /\ workers' = workers - 1

\* ------------------------------------------------------------ Register
\* Register: c.pipeline.Store(&p)
Register(p, pipe) ==
  /\ Enter(p)
  /\ pipeline' = pipe
  /\ Return(p, "Register", "nil", NoState)
  /\ UNCHANGED <<listeners, sub, subs, workers, conn, msgChNil, backendVars, constVars>>

\* ----------------------------------------------------------------- Run
\* Run: load the bound pipeline and compare its name with p.Name()
RunCheck(p, name) ==
  /\ Enter(p)
  /\ IF pipeline.name # name
     THEN Return(p, "Run", "no_such_pipeline", NoState)
     ELSE Goto(p, "run_load") /\ UNCHANGED frame
  /\ UNCHANGED <<driverVars, backendVars, constVars>>

\* a Run that skips the already-active test
RunLoadNoGate(p) ==
  /\ pc[p] = "run_load"
  /\ Goto(p, "run_add")
  /\ frame' = [frame EXCEPT ![p].l = {listeners}]
  /\ UNCHANGED <<driverVars, backendVars, constVars, calls>>

\* Run: l := atomic.LoadUint32(&c.listeners); if l == 1 { return nil }
RunLoad(p) ==
  /\ pc[p] = "run_load"
  /\ IF listeners = 1
     THEN /\ pc' = [pc EXCEPT ![p] = "idle"]
          /\ frame' = [frame EXCEPT ![p] = NoFrame]
          /\ last' = [op |-> "Run", err |-> "nil",
                      l |-> {listeners}, st |-> NoState]
     ELSE /\ Goto(p, "run_add")
          /\ frame' = [frame EXCEPT ![p].l = {listeners}]
  /\ UNCHANGED <<driverVars, backendVars, constVars, calls>>

\* Run: atomic.AddUint32(&c.listeners, 1)
RunAdd(p) ==
  /\ pc[p] = "run_add"
  /\ listeners' = Inc32(listeners)
  /\ Goto(p, "run_init")
  /\ UNCHANGED <<pipeline, sub, subs, workers, conn, msgChNil, backendVars, constVars,
                 frame, calls>>

\* Run: err := c.listenerInit(); if err != nil { return err }
RunInit(p) ==
  /\ pc[p] = "run_init"
  /\ \E ok \in InitOutcomes :
       /\ listenerInit(ok)
       /\ IF ok THEN Goto(p, "run_start") /\ UNCHANGED frame
                ELSE Return(p, "Run", "init_failed", NoState)
  /\ UNCHANGED <<listeners, pipeline, workers, conn, msgChNil, backendVars, constVars,
                 calls>>

\* Run: c.listenerStart(); return nil
RunStart(p) ==
  /\ pc[p] = "run_start"
  /\ listenerStart
  /\ Return(p, "Run", "nil", NoState)
  /\ UNCHANGED <<listeners, pipeline, sub, subs, conn, msgChNil, backendVars,
                 constVars, calls>>

\* --------------------------------------------------------------- Pause
\* a Pause that does not compare the pipeline names
PauseCheckAnyName(p, name) ==
  /\ Enter(p)
  /\ Goto(p, "pause_load")
  /\ UNCHANGED <<driverVars, backendVars, constVars, frame>>

\* Pause: load the bound pipeline and compare its name with p
PauseCheck(p, name) ==
  /\ Enter(p)
  /\ IF pipeline.name # name
     THEN Return(p, "Pause", "no_such_pipeline", NoState)
     ELSE Goto(p, "pause_load") /\ UNCHANGED frame
  /\ UNCHANGED <<driverVars, backendVars, constVars>>

\* a Pause that skips the no-listener test
PauseLoadNoGate(p) ==
  /\ pc[p] = "pause_load"
  /\ Goto(p, "pause_dec")
  /\ frame' = [frame EXCEPT ![p].l = {listeners}]
  /\ UNCHANGED <<driverVars, backendVars, constVars, calls>>

\* Pause: l := atomic.LoadUint32(&c.listeners); if l == 0 { return error }
PauseLoad(p) ==
  /\ pc[p] = "pause_load"
  /\ IF listeners = 0
     THEN /\ pc' = [pc EXCEPT ![p] = "idle"]
          /\ frame' = [frame EXCEPT ![p] = NoFrame]
          /\ last' = [op |-> "Pause", err |-> "nothing_to_pause",
                      l |-> {listeners}, st |-> NoState]
     ELSE /\ Goto(p, "pause_dec")
          /\ frame' = [frame EXCEPT ![p].l = {listeners}]
  /\ UNCHANGED <<driverVars, backendVars, constVars, calls>>

\* Pause: atomic.AddUint32(&c.listeners, ^uint32(0))
PauseDec(p) ==
  /\ pc[p] = "pause_dec"
  /\ listeners' = Dec32(listeners)
  /\ Goto(p, "pause_drain")
  /\ UNCHANGED <<pipeline, sub, subs, workers, conn, msgChNil, backendVars, constVars,
                 frame, calls>>

\* a Pause that returns the drain error
PauseDrainPropagates(p) ==
  /\ pc[p] = "pause_drain"
  /\ IF sub # Nil /\ sub \in DOMAIN subs /\ conn = "open"
     THEN \E ok \in BOOLEAN :
            IF ok THEN /\ subs' = RemoveSub(subs, sub)
                       /\ Goto(p, "pause_send")
                       /\ UNCHANGED frame
                  ELSE /\ Return(p, "Pause", "drain_failed", NoState)
                       /\ UNCHANGED subs
     ELSE /\ Goto(p, "pause_send")
          /\ UNCHANGED <<subs, frame>>
  /\ UNCHANGED <<listeners, pipeline, sub, workers, conn, msgChNil, backendVars,
                 constVars, calls>>

\* Pause: if c.sub != nil { c.sub.Drain() } (a drain error is logged)
PauseDrain(p) ==
  /\ pc[p] = "pause_drain"
  /\ DrainSub
  /\ Goto(p, "pause_send")
  /\ UNCHANGED <<listeners, pipeline, sub, workers, conn, msgChNil, backendVars,
                 constVars, frame, calls>>

\* Pause: c.stopCh <- struct{}{}
PauseSend(p) ==
  /\ pc[p] = "pause_send"
  /\ SendStop
  /\ Goto(p, "pause_clear")
  /\ UNCHANGED <<listeners, pipeline, sub, subs, conn, msgChNil, backendVars,
                 constVars, frame, calls>>

\* Pause: c.sub = nil; return nil
PauseClear(p) ==
  /\ pc[p] = "pause_clear"
  /\ sub' = Nil
  /\ pausedOnce' = TRUE
  /\ Return(p, "Pause", "nil", NoState)
  /\ UNCHANGED <<listeners, pipeline, subs, workers, conn, msgChNil, backendVars,
                 cfg, calls>>

\* -------------------------------------------------------------- Resume
\* Resume: load the bound pipeline and compare its name with p
ResumeCheck(p, name) ==
  /\ Enter(p)
  /\ IF pipeline.name # name
     THEN Return(p, "Resume", "no_such_pipeline", NoState)
     ELSE Goto(p, "resume_load") /\ UNCHANGED frame
  /\ UNCHANGED <<driverVars, backendVars, constVars>>

\* a Resume that treats an active listener as Run does: a silent no-op
ResumeLoadSilent(p) ==
  /\ pc[p] = "resume_load"
  /\ IF listeners = 1
     THEN /\ pc' = [pc EXCEPT ![p] = "idle"]
          /\ frame' = [frame EXCEPT ![p] = NoFrame]
          /\ last' = [op |-> "Resume", err |-> "nil",
                      l |-> {listeners}, st |-> NoState]
     ELSE /\ Goto(p, "resume_init")
          /\ frame' = [frame EXCEPT ![p].l = {listeners}]
  /\ UNCHANGED <<driverVars, backendVars, constVars, calls>>

\* Resume: l := atomic.LoadUint32(&c.listeners); if l == 1 { return error }
ResumeLoad(p) ==
  /\ pc[p] = "resume_load"
  /\ IF listeners = 1
     THEN /\ pc' = [pc EXCEPT ![p] = "idle"]
          /\ frame' = [frame EXCEPT ![p] = NoFrame]
          /\ last' = [op |-> "Resume", err |-> "already_active",
                      l |-> {listeners}, st |-> NoState]
     ELSE /\ Goto(p, "resume_init")
          /\ frame' = [frame EXCEPT ![p].l = {listeners}]
  /\ UNCHANGED <<driverVars, backendVars, constVars, calls>>

\* Resume: err := c.listenerInit(); if err != nil { return err }
ResumeInit(p) ==
  /\ pc[p] = "resume_init"
  /\ \E ok \in InitOutcomes :
       /\ listenerInit(ok)
       /\ IF ok THEN Goto(p, "resume_start") /\ UNCHANGED frame
                ELSE Return(p, "Resume", "init_failed", NoState)
  /\ UNCHANGED <<listeners, pipeline, workers, conn, msgChNil, backendVars, constVars,
                 calls>>

\* a Resume that starts no worker
ResumeStartNoWorker(p) ==
  /\ pc[p] = "resume_start"
  /\ Goto(p, "resume_add")
  /\ UNCHANGED <<driverVars, backendVars, constVars, frame, calls>>

\* Resume: c.listenerStart()
ResumeStart(p) ==
  /\ pc[p] = "resume_start"
  /\ listenerStart
  /\ Goto(p, "resume_add")
  /\ UNCHANGED <<listeners, pipeline, sub, subs, conn, msgChNil, backendVars,
                 constVars, frame, calls>>

\* Resume: atomic.AddUint32(&c.listeners, 1); return nil
ResumeAdd(p) ==
  /\ pc[p] = "resume_add"
  /\ listeners' = Inc32(listeners)
  /\ Return(p, "Resume", "nil", NoState)
  /\ UNCHANGED <<pipeline, sub, subs, workers, conn, msgChNil, backendVars, constVars,
                 calls>>

\* --------------------------------------------------------------- State
\* a State that reports the priority of the configuration snapshot
StatePipeConfigPriority(p) ==
  /\ Enter(p)
  /\ frame' = [frame EXCEPT ![p].st = [Pipeline |-> pipeline.name,
                                       Priority |-> Uint64(InitPipeline.priority),
                                       Ready |-> FALSE]]
  /\ Goto(p, "state_ready")
  /\ UNCHANGED <<driverVars, backendVars, constVars>>

\* State: pipe := *c.pipeline.Load(); Pipeline and Priority of st
StatePipe(p) ==
  /\ Enter(p)
  /\ frame' = [frame EXCEPT ![p].st = [Pipeline |-> pipeline.name,
                                       Priority |-> Uint64(pipeline.priority),
                                       Ready |-> FALSE]]
  /\ Goto(p, "state_ready")
  /\ UNCHANGED <<driverVars, backendVars, constVars>>

\* a State that derives readiness from the subscription handle
StateReadyFromSub(p) ==
  /\ pc[p] = "state_ready"
  /\ frame' = [frame EXCEPT ![p].st.Ready = (sub # Nil)]
  /\ Goto(p, "state_sub")
  /\ UNCHANGED <<driverVars, backendVars, constVars, calls>>

\* State: Ready: ready(atomic.LoadUint32(&c.listeners))
StateReady(p) ==
  /\ pc[p] = "state_ready"
  /\ frame' = [frame EXCEPT ![p].st.Ready = ready(listeners)]
  /\ Goto(p, "state_sub")
  /\ UNCHANGED <<driverVars, backendVars, constVars, calls>>

\* c.sub.ConsumerInfo(): fails on a subscription that is no longer live
InfoOutcomes ==
  IF sub \in DOMAIN subs /\ conn = "open" THEN BOOLEAN ELSE {FALSE}

\* State: if c.sub != nil { ci, err := c.sub.ConsumerInfo(); if err != nil
\* { return nil, err } }; return st, nil
StateSub(p) ==
  /\ pc[p] = "state_sub"
  /\ IF sub = Nil
     THEN Return(p, "State", "nil", frame[p].st)
     ELSE \E ok \in InfoOutcomes :
            IF ok THEN Return(p, "State", "nil", frame[p].st)
                  ELSE Return(p, "State", "consumer_info_failed", NoState)
  /\ UNCHANGED <<driverVars, backendVars, constVars, calls>>

\* ---------------------------------------------------------------- Stop
\* Stop: if atomic.LoadUint32(&c.listeners) > 0 { ... }
StopLoad(p) ==
  /\ Enter(p)
  /\ IF ready(listeners) THEN Goto(p, "stop_drain") ELSE Goto(p, "stop_delete")
  /\ UNCHANGED <<driverVars, backendVars, constVars, frame>>

\* Stop: if c.sub != nil { c.sub.Drain() } (a drain error is logged)
StopDrain(p) ==
  /\ pc[p] = "stop_drain"
  /\ DrainSub
  /\ Goto(p, "stop_send")
  /\ UNCHANGED <<listeners, pipeline, sub, workers, conn, msgChNil, backendVars,
                 constVars, frame, calls>>

\* Stop: c.stopCh <- struct{}{}
StopSend(p) ==
  /\ pc[p] = "stop_send"
  /\ SendStop
  /\ Goto(p, "stop_delete")
  /\ UNCHANGED <<listeners, pipeline, sub, subs, conn, msgChNil, backendVars,
                 constVars, frame, calls>>

\* c.js.DeleteStream(c.stream): fails when the stream or the connection is gone
DeleteOutcomes == IF streamExists /\ conn = "open" THEN BOOLEAN ELSE {FALSE}

\* a Stop that goes on to the connection when the stream deletion fails
StopDeleteIgnoresError(p) ==
  /\ pc[p] = "stop_delete"
  /\ IF cfg.deleteStreamOnStop
     THEN \E ok \in DeleteOutcomes :
            IF ok
            THEN /\ streamExists' = FALSE
                 /\ stream' = {}
                 /\ subs' = EmptySubs
            ELSE UNCHANGED <<streamExists, stream, subs>>
     ELSE UNCHANGED <<streamExists, stream, subs>>
  /\ Goto(p, "stop_conn")
  /\ UNCHANGED <<listeners, pipeline, sub, workers, conn, msgChNil, msgCh,
                 lastSeq, queue, constVars, calls, frame>>

\* Stop: if c.deleteStreamOnStop { err := c.js.DeleteStream(c.stream);
\* if err != nil { return err } }
StopDelete(p) ==
  /\ pc[p] = "stop_delete"
  /\ IF cfg.deleteStreamOnStop
     THEN \E ok \in DeleteOutcomes :
            IF ok
            THEN /\ streamExists' = FALSE
                 /\ stream' = {}
                 /\ subs' = EmptySubs
                 /\ Goto(p, "stop_conn")
                 /\ UNCHANGED frame
            ELSE /\ Return(p, "Stop", "delete_stream_failed", NoState)
                 /\ UNCHANGED <<streamExists, stream, subs>>
     ELSE /\ Goto(p, "stop_conn")
          /\ UNCHANGED <<streamExists, stream, subs, frame>>
  /\ UNCHANGED <<listeners, pipeline, sub, workers, conn, msgChNil, msgCh,
                 lastSeq, queue, constVars, calls>>

\* c.conn.Drain(): fails on a connection that is already closed
ConnDrainOutcomes == IF conn = "open" THEN BOOLEAN ELSE {FALSE}

\* Stop: err := c.conn.Drain(); if err != nil { return err };
\* c.conn.Close(); c.msgCh = nil; return nil
StopConn(p) ==
  /\ pc[p] = "stop_conn"
  /\ \E ok \in ConnDrainOutcomes :
       IF ok
       THEN /\ conn' = "closed"
            /\ subs' = EmptySubs
            /\ msgChNil' = TRUE
            /\ Return(p, "Stop", "nil", NoState)
       ELSE /\ Return(p, "Stop", "conn_drain_failed", NoState)
            /\ UNCHANGED <<conn, subs, msgChNil>>
  /\ UNCHANGED <<listeners, pipeline, sub, workers, backendVars, constVars, calls>>

\* ---------------------------------------------------------- FromConfig
\* the call of FromConfig that fails, if any: the configuration lookup,
\* nats.Connect, js.StreamInfo (other than stream-not-found), js.AddStream
Failures == {"none", "config", "connect", "info", "add"}

\* a construction that treats a missing stream as a fatal query error
FromConfigNotFoundFatal(p, pipe, fail) ==
  /\ Enter(p)
  /\ conn = "closed"
  /\ IF fail \in {"config", "connect", "info"} \/ ~streamExists
     THEN /\ Return(p, "FromConfig", IF fail = "none" THEN "info" ELSE fail,
                    NoState)
          /\ UNCHANGED <<driverVars, backendVars, pausedOnce>>
     ELSE /\ listeners' = 0
          /\ pipeline' = pipe
          /\ sub' = Nil
          /\ subs' = EmptySubs
          /\ workers' = 0
          /\ conn' = "open"
          /\ msgCh' = <<>>
          /\ msgChNil' = FALSE
          /\ pausedOnce' = FALSE
          /\ queue' = {}
          /\ Return(p, "FromConfig", "nil", NoState)
          /\ UNCHANGED <<streamExists, stream, lastSeq>>
  /\ UNCHANGED cfg

\* FromConfig, once the previous Driver has been stopped: connect, query the
\* stream, create it when the query reports stream-not-found, and allocate
\* the Driver over the priority queue pq it is handed, an empty one (the
\* Items of the stopped Driver requeue through that Driver); any failed call
\* is fatal and constructs nothing
FromConfig(p, pipe, fail) ==
  /\ Enter(p)
  /\ conn = "closed"
  /\ IF fail \in {"config", "connect", "info"} \/ (fail = "add" /\ ~streamExists)
     THEN /\ Return(p, "FromConfig", fail, NoState)
          /\ UNCHANGED <<driverVars, backendVars, pausedOnce>>
     ELSE /\ streamExists' = TRUE
          /\ stream' = IF streamExists THEN stream ELSE {}
          /\ lastSeq' = IF streamExists THEN lastSeq ELSE 0
          /\ listeners' = 0
          /\ pipeline' = pipe
          /\ sub' = Nil
          /\ subs' = EmptySubs
          /\ workers' = 0
          /\ conn' = "open"
          /\ msgCh' = <<>>
          /\ msgChNil' = FALSE
          /\ pausedOnce' = FALSE
          /\ queue' = {}
          /\ Return(p, "FromConfig", "nil", NoState)
  /\ UNCHANGED cfg

\* ---------------------------------------------------------------- Push
\* c.js.Publish(c.subject, data): needs the connection and the stream
PublishOutcomes == IF conn = "open" /\ streamExists THEN BOOLEAN ELSE {FALSE}

\* the stream after body is appended to it
Published(body) == stream \cup {[seq |-> lastSeq + 1, body |-> body]}

\* Push: reject a delayed job, else marshal and publish it
Push(p, ident, delay) ==
  /\ Enter(p)
  /\ delay > 0 \/ lastSeq < MaxMsgs
  /\ IF delay > 0
     THEN /\ Return(p, "Push", "delay_unsupported", NoState)
          /\ UNCHANGED <<stream, lastSeq>>
     ELSE \E ok \in PublishOutcomes :
            IF ok
            THEN /\ stream' = Published(Marshal(ident, Options(delay)))
                 /\ lastSeq' = lastSeq + 1
                 /\ Return(p, "Push", "nil", NoState)
            ELSE /\ Return(p, "Push", "publish_failed", NoState)
                 /\ UNCHANGED <<stream, lastSeq>>
  /\ UNCHANGED <<driverVars, msgCh, streamExists, queue, constVars>>

\* ------------------------------------------------------------- requeue
\* c.js.DeleteMsg(c.stream, seq): its error is dropped
DeleteMsg(str, seq) ==
  IF conn = "open" /\ streamExists
  THEN {str, {m \in str : m.seq # seq}}
  ELSE {str}

\* a requeue without the delay test
requeueNoDelayTest(p, q, delay) ==
  /\ Enter(p)
  /\ q \in queue
  /\ q.item.Options # NoOptions
  /\ lastSeq < MaxMsgs
  /\ \E ok \in PublishOutcomes :
       IF ok
       THEN /\ stream' \in DeleteMsg(
                  Published(Marshal(q.item.Ident,
                                    [q.item.Options EXCEPT !.Delay = delay])),
                  q.seq)
            /\ lastSeq' = lastSeq + 1
            /\ Return(p, "requeue", "nil", NoState)
       ELSE /\ Return(p, "requeue", "publish_failed", NoState)
            /\ UNCHANGED <<stream, lastSeq>>
  /\ UNCHANGED <<driverVars, msgCh, streamExists, queue, constVars>>

\* a requeue that deletes the original before it publishes the copy
requeueDeleteFirst(p, q, delay) ==
  /\ Enter(p)
  /\ q \in queue
  /\ q.item.Options # NoOptions
  /\ delay > 0 \/ lastSeq < MaxMsgs
  /\ IF delay > 0
     THEN /\ Return(p, "requeue", "delay_unsupported", NoState)
          /\ UNCHANGED <<stream, lastSeq>>
     ELSE \E ok \in PublishOutcomes : \E str \in DeleteMsg(stream, q.seq) :
            IF ok
            THEN /\ stream' = str \cup
                       (Published(Marshal(q.item.Ident,
                                          [q.item.Options EXCEPT !.Delay = delay]))
                        \ stream)
                 /\ lastSeq' = lastSeq + 1
                 /\ Return(p, "requeue", "nil", NoState)
            ELSE /\ stream' = str
                 /\ Return(p, "requeue", "publish_failed", NoState)
                 /\ UNCHANGED lastSeq
  /\ UNCHANGED <<driverVars, msgCh, streamExists, queue, constVars>>

\* requeue: reject a delayed item, else republish it and delete the original
requeue(p, q, delay) ==
  /\ Enter(p)
  /\ q \in queue
  /\ q.item.Options # NoOptions
  /\ delay > 0 \/ lastSeq < MaxMsgs
  /\ IF delay > 0
     THEN /\ Return(p, "requeue", "delay_unsupported", NoState)
          /\ UNCHANGED <<stream, lastSeq>>
     ELSE \E ok \in PublishOutcomes :
            IF ok
            THEN /\ stream' \in DeleteMsg(
                       Published(Marshal(q.item.Ident,
                                         [q.item.Options EXCEPT !.Delay = delay])),
                       q.seq)
                 /\ lastSeq' = lastSeq + 1
                 /\ Return(p, "requeue", "nil", NoState)
            ELSE /\ Return(p, "requeue", "publish_failed", NoState)
                 /\ UNCHANGED <<stream, lastSeq>>
  /\ UNCHANGED <<driverVars, msgCh, streamExists, queue, constVars>>

\* ---------------------------------------------- backend and the worker
\* another producer publishes to the subject
ForeignPublish(body) ==
  /\ streamExists
  /\ lastSeq < MaxMsgs
  /\ stream' = Published(body)
  /\ lastSeq' = lastSeq + 1
  /\ UNCHANGED <<driverVars, msgCh, streamExists, queue, constVars, pc, frame, calls,
                 last>>

\* the stream sequences subscription s has still to deliver
Pending(s) == {n \in Seqs : n >= subs[s].cursor}

\* the backend delivers the next message of live subscription s into msgCh
Deliver(s) ==
  /\ s \in DOMAIN subs
  /\ conn = "open"
  /\ Len(msgCh) < Prefetch
  /\ Pending(s) # {}
  /\ LET n == CHOOSE x \in Pending(s) : \A y \in Pending(s) : x <= y
         m == CHOOSE x \in stream : x.seq = n
     IN /\ msgCh' = Append(msgCh, [body |-> m.body,
                                   meta |-> [consumer |-> subs[s].delivered + 1,
                                             stream |-> n]])
        /\ subs' = [subs EXCEPT ![s] = [cursor |-> n + 1,
                                        delivered |-> subs[s].delivered + 1]]
  /\ UNCHANGED <<listeners, pipeline, sub, workers, conn, msgChNil,
                 streamExists, stream, lastSeq, queue, constVars, pc, frame, calls,
                 last>>

\* a worker receives from c.msgCh, unpacks the message and inserts the Item
\* into the priority queue; a message that does not unpack is dropped
WorkerRecv ==
  /\ workers > 0
  /\ ~msgChNil
  /\ msgCh # <<>>
  /\ LET m == Head(msgCh)
         r == unpack(m.body, m.meta)
     IN queue' = IF r.err THEN queue
                 ELSE queue \cup {[item |-> r.item, seq |-> m.meta.stream]}
  /\ msgCh' = Tail(msgCh)
  /\ UNCHANGED <<driverVars, streamExists, stream, lastSeq, constVars, pc, frame,
                 calls, last>>

\* ---------------------------------------------------------------- Next
\* one step of caller p in a lifecycle method
Lifecycle(p) ==
  \/ \E pipe \in Pipelines : Register(p, pipe)
  \/ \E name \in Names : RunCheck(p, name)
  \/ RunLoad(p)
  \/ RunAdd(p)
  \/ RunInit(p)
  \/ RunStart(p)
  \/ \E name \in Names : PauseCheck(p, name)
  \/ PauseLoad(p)
  \/ PauseDec(p)
  \/ PauseDrain(p)
  \/ PauseSend(p)
  \/ PauseClear(p)
  \/ \E name \in Names : ResumeCheck(p, name)
  \/ ResumeLoad(p)
  \/ ResumeInit(p)
  \/ ResumeStart(p)
  \/ ResumeAdd(p)
  \/ StatePipe(p)
  \/ StateReady(p)
  \/ StateSub(p)
  \/ StopLoad(p)
  \/ StopDrain(p)
  \/ StopSend(p)
  \/ StopDelete(p)
  \/ StopConn(p)

\* one step of caller p constructing, producing or requeueing
Produce(p) ==
  \/ \E fail \in Failures : FromConfig(p, InitPipeline, fail)
  \/ \E delay \in Delays : Push(p, "j1", delay)
  \/ \E q \in queue : \E delay \in Delays : requeue(p, q, delay)

\* one step of the backend or of a worker goroutine
Consume ==
  \/ \E body \in ForeignBodies : ForeignPublish(body)
  \/ \E s \in DOMAIN subs : Deliver(s)
  \/ WorkerRecv

\* concurrent callers of the lifecycle methods; the messaging configuration
\* plays no part in them
InitLifecycle == Init /\ ~cfg.consumeAll /\ cfg.deliver = "all"

Next == \E p \in Callers : Lifecycle(p)

Spec == InitLifecycle /\ [][Next]_vars

\* one caller at a time, with production, delivery and the worker, under
\* the default delivery policy
InitSeq == Init /\ cfg.deliver = "all"

NextSeq ==
  \/ \E p \in SeqCallers : Lifecycle(p)
  \/ \E p \in SeqCallers : Produce(p)
  \/ Consume

SpecSeq == InitSeq /\ [][NextSeq]_vars

\* the backend keeps delivering and a running worker keeps receiving
InitLive == Init /\ ~cfg.consumeAll /\ ~cfg.deleteStreamOnStop

SpecLive ==
  /\ InitLive /\ [][NextSeq]_vars
  /\ \A s \in 1..(MaxCalls + 1) : WF_vars(Deliver(s))
  /\ WF_vars(WorkerRecv)

\* unpack on its own: an Active driver whose worker holds one consumed
\* message of any body and any pair of sequence numbers
UnpackBodies == ForeignBodies \cup {Marshal("j1", Options(0))}

InitUnpack ==
  /\ listeners = 1
  /\ pipeline = InitPipeline
  /\ sub = 1
  /\ workers = 1
  /\ conn = "open"
  /\ msgChNil = FALSE
  /\ streamExists = TRUE
  /\ queue = {}
  /\ \E c \in 1..MaxSeq : \E s \in 1..MaxSeq : \E body \in UnpackBodies :
       /\ subs = [i \in {1} |-> [cursor |-> s + 1, delivered |-> c]]
       /\ msgCh = <<[body |-> body, meta |-> [consumer |-> c, stream |-> s]]>>
       /\ stream = {[seq |-> s, body |-> body]}
       /\ lastSeq = s
  /\ cfg \in [deleteStreamOnStop : {FALSE}, consumeAll : BOOLEAN,
              deliver : {"all"}]
  /\ pc = [p \in Callers |-> "idle"]
  /\ frame = [p \in Callers |-> NoFrame]
  /\ calls = 0
  /\ pausedOnce = FALSE
  /\ last = [op |-> "none", err |-> "nil", l |-> {}, st |-> NoState]

NextUnpack == WorkerRecv

SpecUnpack == InitUnpack /\ [][NextUnpack]_vars

\* ------------------------------------------------------------- claims
Active == listeners = 1 /\ sub \in DOMAIN subs /\ workers = 1

\* C1: in every reachable state, under any interleaving of concurrent calls,
\* the listener counter is 0 or 1 (never above 1, never wrapped below 0).
C1_CounterZeroOrOne == listeners = 0 \/ listeners = 1

\* C2: at most one consumption loop (a live subscription together with a
\* worker goroutine) exists per Driver at any time: there are never two live
\* subscriptions and two workers.
C2_OneConsumptionLoop == workers <= 1 \/ Cardinality(DOMAIN subs) <= 1

\* C3: a Run that found the counter at 0 (an Idle driver) and returned success
\* leaves the driver Active; a Run that finds the counter at 1 returns success
\* and changes neither the counter, the subscription nor the workers.
C3_RunIdempotent ==
  /\ [](AllIdle /\ last.op = "Run" /\ last.err = "nil" /\ last.l = {0} => Active)
  /\ [][\A p \in Callers :
          (pc[p] = "run_load" /\ pc'[p] # "run_load" /\ listeners = 1) =>
            /\ pc'[p] = "idle"
            /\ last'.op = "Run" /\ last'.err = "nil"
            /\ UNCHANGED <<listeners, sub, subs, workers, conn>>]_vars

\* a second Run returned success on an Active driver, which is still Active
C3_Witness ==
  AllIdle /\ last.op = "Run" /\ last.err = "nil" /\ last.l = {1} /\ Active

\* C5: Resume while the counter is 1 returns the already-active error and
\* leaves the subscription handle, the workers and the counter unchanged.
C5_ResumeWhileActive ==
  [][\A p \in Callers :
       (pc[p] = "resume_load" /\ pc'[p] # "resume_load" /\ listeners = 1) =>
         /\ pc'[p] = "idle"
         /\ last'.op = "Resume" /\ last'.err = "already_active"
         /\ UNCHANGED <<listeners, sub, subs, workers, conn>>]_vars

\* a Resume returned the already-active error on an Active driver
C5_Witness ==
  last.op = "Resume" /\ last.err = "already_active" /\ last.l = {1} /\ Active

\* C6: Pause while the counter is 0 returns the nothing-to-pause error, sends
\* no stop signal and leaves the counter at 0.
C6_PauseWhileIdle ==
  [][\A p \in Callers :
       (pc[p] = "pause_load" /\ pc'[p] # "pause_load" /\ listeners = 0) =>
         /\ pc'[p] = "idle"
         /\ last'.op = "Pause" /\ last'.err = "nothing_to_pause"
         /\ listeners' = 0
         /\ UNCHANGED <<sub, subs, workers, conn>>]_vars

\* a Pause returned the nothing-to-pause error and the counter is 0
C6_Witness ==
  last.op = "Pause" /\ last.err = "nothing_to_pause" /\ last.l = {0}
  /\ listeners = 0

\* C7: Run, Pause or Resume called with a name other than the bound
\* pipeline's returns an error and leaves the counter, the subscription
\* handle, the workers and the connection unchanged, in every state.
C7_NameMismatch ==
  [][\A p \in Callers : \A name \in Names :
       (name # pipeline.name
        /\ (RunCheck(p, name) \/ PauseCheck(p, name) \/ ResumeCheck(p, name))) =>
         /\ pc'[p] = "idle"
         /\ last'.op \in {"Run", "Pause", "Resume"}
         /\ last'.err = "no_such_pipeline"
         /\ UNCHANGED <<listeners, sub, subs, workers, conn>>]_vars

\* a Pause with the wrong name failed on an Active driver, still Active
C7_Witness ==
  last.op = "Pause" /\ last.err = "no_such_pipeline" /\ Active

\* C9: whenever a Pause or Stop is at its send on the stop channel, a worker
\* is running to receive it, so the call returns.
C9_StopSignalReceived ==
  \A p \in Callers : pc[p] \in {"pause_send", "stop_send"} => workers > 0

\* message n unpacks without error in the configured mode
Decodable(n) ==
  \E m \in stream : m.seq = n /\ (cfg.consumeAll \/ m.body.kind = "json")

\* the Item of message n has been inserted into the priority queue
InQueue(n) == \E q \in queue : q.seq = n

\* a Resume has just returned success after an earlier successful Pause
Resumed == AllIdle /\ pausedOnce /\ last.op = "Resume" /\ last.err = "nil"

\* a later Pause or Stop has taken the listener down, or message n is deleted
Interrupted(n) ==
  \/ listeners # 1 \/ workers = 0 \/ sub \notin DOMAIN subs
  \/ conn # "open" \/ n \notin Seqs

C8_DelayRejected ==
  [][\A p \in Callers : \A delay \in Delays :
       (delay > 0
        /\ (Push(p, "j1", delay) \/ \E q \in queue : requeue(p, q, delay))) =>
         /\ last'.op \in {"Push", "requeue"}
         /\ last'.err = "delay_unsupported"
         /\ UNCHANGED <<stream, lastSeq>>]_vars

\* a requeue with a delay was rejected while the original is still in the
\* stream
C8_Witness ==
  /\ last.op = "requeue" /\ last.err = "delay_unsupported"
  /\ \E q \in queue : q.seq \in Seqs

\* C10, the frame: Register stores the pipeline and changes nothing else.
RegisterFrame ==
  \A p \in Callers : \A pipe \in Pipelines :
    Register(p, pipe) =>
      /\ pipeline' = pipe
      /\ UNCHANGED <<listeners, sub, subs, workers, conn, msgChNil>>

\* C10 as stated: once Register has replaced the pipeline, a State call
\* reports the bound pipeline's name and priority (the priority as the uint64
\* that jobs.State carries).
C10_StateReportsPipeline ==
  (AllIdle /\ last.op = "State" /\ pipeline # InitPipeline) =>
    /\ last.st # NoState
    /\ last.st.Pipeline = pipeline.name
    /\ last.st.Priority = Uint64(pipeline.priority)

\* C10 as amended: Register changes the pipeline only; a State call that
\* returns a state reports the bound pipeline's name and its priority
\* converted to uint64, and a State call returns no state only when the
\* consumer-info query on its subscription handle failed.
C10_RegisterThenState ==
  /\ [][RegisterFrame]_vars
  /\ []((AllIdle /\ last.op = "State" /\ last.err = "nil") =>
          /\ last.st # NoState
          /\ last.st.Pipeline = pipeline.name
          /\ last.st.Priority = Uint64(pipeline.priority)
          /\ (pipeline.priority >= 0 =>
                last.st.Priority.wraps = 0
                /\ last.st.Priority.low = pipeline.priority))
  /\ []((AllIdle /\ last.op = "State" /\ last.err # "nil") =>
          last.err = "consumer_info_failed" /\ sub # Nil)

\* on an Active driver never paused, a State call after a Register reports
\* the registered pipeline
C10_Witness ==
  /\ AllIdle /\ last.op = "State" /\ last.err = "nil"
  /\ Active /\ ~pausedOnce
  /\ pipeline = [name |-> "p2", priority |-> 10]
  /\ last.st.Pipeline = "p2" /\ last.st.Priority = Uint64(10)

\* C11 as stated: every State call reports ready = true exactly when the
\* listener counter is greater than 0, also when the consumer-info query on
\* the live subscription fails.
C11_ReadyAlwaysReported ==
  (AllIdle /\ last.op = "State") =>
    /\ last.st # NoState
    /\ last.st.Ready = (listeners # 0)

\* C11 as amended: a State call that returns a state reports ready = true
\* exactly when the listener counter is greater than 0, and it returns a
\* state unless the consumer-info query on its subscription handle failed,
\* in which case it returns the error and no state.
C11_ReadyWhenReported ==
  /\ []((AllIdle /\ last.op = "State" /\ last.err = "nil") =>
          /\ last.st # NoState
          /\ last.st.Ready = (listeners # 0))
  /\ []((AllIdle /\ last.op = "State" /\ last.err # "nil") =>
          /\ last.err = "consumer_info_failed"
          /\ last.st = NoState
          /\ sub # Nil)

\* a State call on an Active driver, whose consumer-info query on the live
\* subscription succeeded, returned ready = true
C11_Witness ==
  /\ AllIdle /\ last.op = "State" /\ last.err = "nil"
  /\ Active /\ sub \in DOMAIN subs
  /\ last.st.Ready /\ listeners = 1

\* C12, construction: FromConfig creates the stream exactly when the
\* stream-info query reports it as not found, and then succeeds unless one
\* of its calls fails; a stream that exists is left as it is; a failed
\* construction creates nothing.
ConstructionCreatesWhenAbsent ==
  \A p \in Callers : \A pipe \in Pipelines : \A fail \in Failures :
    FromConfig(p, pipe, fail) =>
      /\ (~streamExists /\ fail = "none") =>
           /\ last'.op = "FromConfig" /\ last'.err = "nil"
           /\ streamExists' /\ stream' = {}
           /\ conn' = "open" /\ listeners' = 0 /\ sub' = Nil
      /\ streamExists => (streamExists' /\ stream' = stream /\ lastSeq' = lastSeq)
      /\ last'.err # "nil" => UNCHANGED <<streamExists, stream, conn>>

\* C12: after Stop has succeeded on a driver configured with
\* delete-stream-on-stop the stream no longer exists; a later construction
\* for the same stream finds it absent, creates it and succeeds, and a
\* construction creates a stream only when the stream-info query reports it
\* as not found.
C12_StopDeletesConstructionCreates ==
  /\ []((AllIdle /\ last.op = "Stop" /\ last.err = "nil"
         /\ cfg.deleteStreamOnStop) => (~streamExists /\ stream = {}))
  /\ [][ConstructionCreatesWhenAbsent]_vars

\* the stream that Stop deleted has been created again, empty, by the
\* construction that has just succeeded
C12_Witness ==
  /\ AllIdle /\ last.op = "FromConfig" /\ last.err = "nil"
  /\ cfg.deleteStreamOnStop
  /\ streamExists /\ stream = {} /\ lastSeq = 0
  /\ conn = "open" /\ listeners = 0

\* C13, one requeue with delay 0: either the publish failed, that error is
\* returned and the stream is untouched, or the copy was published under the
\* next sequence number, the original is deleted or (the delete having
\* failed) still there, and requeue returns success.
RequeuePublishesThenDeletes ==
  \A p \in Callers : \A q \in queue :
    requeue(p, q, 0) =>
      \/ /\ last'.op = "requeue" /\ last'.err = "publish_failed"
         /\ stream' = stream /\ lastSeq' = lastSeq
      \/ /\ last'.op = "requeue" /\ last'.err = "nil"
         /\ lastSeq' = lastSeq + 1
         /\ \E m \in stream' : /\ m.seq = lastSeq'
                               /\ m.body = Marshal(q.item.Ident, q.item.Options)
         /\ {m \in stream' : m.seq # lastSeq'}
              \in {stream, {m \in stream : m.seq # q.seq}}

\* C13: requeue with delay 0 republishes first and attempts the delete by
\* sequence token only after a successful publish; a publish failure is
\* returned with the original not deleted; a delete failure is swallowed and
\* requeue returns success.
C13_RequeuePublishThenDelete ==
  [][RequeuePublishesThenDeletes]_vars

\* requeue returned success although the delete failed: the original is
\* still in the stream next to its republished copy
C13_Witness ==
  /\ AllIdle /\ last.op = "requeue" /\ last.err = "nil"
  /\ \E q \in queue : \E m, n \in stream :
       /\ m.seq = q.seq /\ n.seq = lastSeq /\ n.seq # m.seq
       /\ n.body = Marshal(q.item.Ident, q.item.Options)

\* the decimal numerals, written out
Decimal == <<"1", "2", "3", "4", "5", "6", "7", "8", "9", "10", "11", "12",
             "13", "14", "15", "16">>

\* C14, raw consume-all mode: the Item unpacked from the message with
\* consumer sequence c and stream sequence s has identity "c:s", job name
\* and pipeline name equal to the sentinel, priority 10 and non-nil options,
\* whatever the payload.
RawItems ==
  cfg.consumeAll =>
    \A q \in queue :
      /\ q.item.Ident = Decimal[subs[1].delivered] \o ":" \o Decimal[q.seq]
      /\ q.item.Job = "deduced_by_rr"
      /\ q.item.Options # NoOptions
      /\ q.item.Options.Pipeline = "deduced_by_rr"
      /\ q.item.Options.Priority = 10

\* consumer sequence 3 and stream sequence 7 give identity "3:7"
RawItemThreeSeven ==
  (cfg.consumeAll /\ subs[1].delivered = 3 /\ lastSeq = 7) =>
    \A q \in queue : q.item.Ident = "3:7"

\* C14 as stated: the raw-mode Item is as above, and in every mode an Item
\* returned by the Unpacker without error has non-nil options.
C14_UnpackedOptionsNonNil ==
  /\ RawItems
  /\ RawItemThreeSeven
  /\ \A q \in queue : q.item.Options # NoOptions

\* C15: whenever no lifecycle operation is in progress, after any sequence
\* of Run, Resume, Pause and Register calls, succeeding or failing, the
\* counter is 1 exactly when the subscription handle is non-nil and a worker
\* is running, and 0 exactly when there is no subscription and no worker.
C15_CounterMatchesSubscription ==
  (AllIdle /\ conn = "open"
   /\ last.op \in {"none", "Run", "Resume", "Pause", "Register"}) =>
    /\ (listeners = 1) <=> (sub # Nil /\ workers >= 1)
    /\ (listeners = 0) <=> (sub = Nil /\ workers = 0)

\* C16: Run and Resume initialise the subscription and start the worker
\* before they increment the counter, so no State call, concurrent with them
\* or not, loads a counter that reads ready = true while the subscription
\* does not exist.
C16_ReadyOnlyWithSubscription ==
  [][\A p \in Callers :
       (pc[p] = "state_ready" /\ pc'[p] = "state_sub" /\ frame'[p].st.Ready)
         => sub # Nil]_vars

\* C17, the order of Pause's steps with a single caller: the counter is
\* already decremented when the drain, the stop signal and the clearing of
\* the handle take place; the drain step always continues to the stop
\* signal, whatever the drain returned; the handle is cleared last, after
\* the worker took the signal.
PauseStepOrder ==
  \A p \in SeqCallers :
    /\ pc[p] \in {"pause_drain", "pause_send", "pause_clear"} => listeners = 0
    /\ pc[p] = "pause_clear" => (sub # Nil /\ workers = 0)

PauseDrainContinues ==
  \A p \in SeqCallers :
    (pc[p] = "pause_drain" /\ pc'[p] # "pause_drain") =>
      /\ pc'[p] = "pause_send" /\ last' = last
      /\ UNCHANGED <<listeners, sub, workers>>

\* C17: Pause on an Active driver decrements the counter before draining,
\* then signals the worker and clears the handle; it returns success even
\* when the drain fails; afterwards the counter is 0, the handle nil, the
\* worker stopped and the connection still open.
C17_PauseOrderAndOutcome ==
  /\ []PauseStepOrder
  /\ [][PauseDrainContinues]_vars
  /\ []((AllIdle /\ last.op = "Pause" /\ last.err = "nil") =>
          /\ listeners = 0
          /\ sub = Nil
          /\ workers = 0
          /\ conn = "open")

\* Pause returned success on a driver whose drain failed: the subscription
\* it held is still live at the backend
C17_Witness ==
  /\ AllIdle /\ last.op = "Pause" /\ last.err = "nil"
  /\ listeners = 0 /\ sub = Nil /\ workers = 0 /\ conn = "open"
  /\ DOMAIN subs # {}

\* C18, the steps of Stop in order: the drain of the subscription and the
\* stop signal are taken exactly when the loaded counter is not 0; the
\* stream is deleted exactly when deletion is configured, and a failed
\* deletion returns its error at once; then the connection is drained and,
\* only if that succeeded, closed and the intake channel cleared. The
\* connection and the intake channel change in no other step of Stop, so a
\* Stop that returns an error leaves them as they were.
StopStepOrder ==
  \A p \in SeqCallers :
    /\ (pc[p] = "idle" /\ pc'[p] = "stop_drain") => ready(listeners)
    /\ (pc[p] = "idle" /\ pc'[p] = "stop_delete") => ~ready(listeners)
    /\ (pc[p] = "stop_drain" /\ pc'[p] # "stop_drain") =>
         (pc'[p] = "stop_send" /\ UNCHANGED <<workers, streamExists, conn, msgChNil>>)
    /\ (pc[p] = "stop_send" /\ pc'[p] # "stop_send") =>
         /\ pc'[p] = "stop_delete" /\ workers' = workers - 1
         /\ UNCHANGED <<streamExists, conn, msgChNil>>
    /\ (pc[p] = "stop_delete" /\ pc'[p] # "stop_delete") =>
         \/ /\ pc'[p] = "stop_conn"
            /\ streamExists' = (streamExists /\ ~cfg.deleteStreamOnStop)
            /\ cfg.deleteStreamOnStop => streamExists
            /\ UNCHANGED <<conn, msgChNil>>
         \/ /\ pc'[p] = "idle" /\ cfg.deleteStreamOnStop
            /\ last'.op = "Stop" /\ last'.err = "delete_stream_failed"
            /\ UNCHANGED <<streamExists, stream, conn, msgChNil>>
    /\ (pc[p] = "stop_conn" /\ pc'[p] # "stop_conn") =>
         /\ pc'[p] = "idle" /\ last'.op = "Stop"
         /\ \/ /\ last'.err = "nil"
               /\ conn = "open" /\ conn' = "closed" /\ msgChNil'
            \/ /\ last'.err = "conn_drain_failed"
               /\ UNCHANGED <<conn, msgChNil>>
         /\ UNCHANGED <<streamExists, stream>>

\* C18: Stop drains the subscription and signals the worker (only if the
\* listener is active), deletes the stream (only if configured), drains the
\* connection, closes it and clears the intake channel, in that order; a
\* stream-deletion or connection-drain failure makes Stop return that error
\* without any later step, so that a connection that was open is left open
\* and the intake channel uncleared.
C18_StopOrderAndEarlyReturn ==
  [][StopStepOrder]_vars

\* on an Active driver Stop has drained, signalled the worker and then
\* failed to delete the stream: it returned that error with the connection
\* open and the intake channel in place
C18_Witness ==
  /\ AllIdle /\ last.op = "Stop" /\ last.err = "delete_stream_failed"
  /\ listeners = 1 /\ workers = 0
  /\ streamExists /\ conn = "open" /\ ~msgChNil

\* C19: Stopped is terminal. Once Stop has returned successfully (the
\* connection is closed and no new Driver has been constructed) the counter
\* is 0 and a State call does not report ready = true, also after any later
\* Run, Resume or Pause.
C19_StoppedIsTerminal ==
  (AllIdle /\ conn = "closed") =>
    /\ listeners = 0
    /\ (last.op = "State" /\ last.st # NoState) => ~last.st.Ready

\* C20: a Run or Resume that returns the listener-initialisation error
\* leaves the driver as it was before the call: counter 0, not ready, no
\* subscription handle and no worker, so that a later Run initialises again.
C20_FailedInitLeavesIdle ==
  (AllIdle /\ last.op \in {"Run", "Resume"} /\ last.err = "init_failed") =>
    /\ listeners = 0
    /\ ~ready(listeners)
    /\ sub = Nil
    /\ workers = 0

====
